---------------------------- MODULE Spec2Model ----------------------------
(***************************************************************************)
(* Model of the audio-features inference service (web/api/app).            *)
(*                                                                         *)
(*   Spec      the HTTP surface of main.py handled one request at a time,  *)
(*             with get_predictor, Predictor.__init__, ensure_checkpoint   *)
(*             and predict_from_bytes of model_loader.py run inside /infer *)
(*   SpecRace  get_predictor called by several threads, statement by       *)
(*             statement, down to the file operations of ensure_checkpoint *)
(*   SpecAdapt the embedding adapter _adapt as a pure function             *)
(*   SpecReg   the regression loop of _predict_from_path with              *)
(*             _invert_regression                                          *)
(*                                                                         *)
(* File sizes are in MiB.  Floating-point values are modelled by integers  *)
(* (exact arithmetic) and expm1 by an uninterpreted, injective             *)
(* constructor.                                                            *)
(***************************************************************************)
EXTENDS Integers, Sequences, FiniteSets, TLC

VARIABLES
    _predictor,    \* model_loader._predictor: 0 is None, n > 0 the n-th instance
    env,           \* the artifacts and environment variables of the process
    ckpt,          \* the file at PANN_CKPT: [exists, size]
    part,          \* whether the ".part" download file exists
    resp,          \* the request just handled and the response it got
    served,        \* number of requests handled
    initRuns,      \* number of times Predictor.__init__ was entered
    built,         \* number of times Predictor.__init__ returned normally
    getCalls,      \* number of get_predictor calls
    predictCalls,  \* number of predict_from_bytes calls
    ensureCalls,   \* number of ensure_checkpoint calls
    ensureLast,    \* outcome of the latest ensure_checkpoint call
    rejected,      \* the file now at PANN_CKPT was rejected as too small
    pc, result, inodes, tmpPath, dstPath, fd, off, nextInst, corrupt,
                   \* SpecRace: the threads and the file system
    ax, aE, ay, az, aphase,
                   \* SpecAdapt: input batch, expected width, results
    rseed, rscalers, rclasses, ri, reg, features, rphase
                   \* SpecReg: head outputs, scalers, loop state, result

mainVars  == <<env, ckpt, part, resp, served, initRuns, built, getCalls,
               predictCalls, ensureCalls, ensureLast, rejected>>
raceVars  == <<pc, result, inodes, tmpPath, dstPath, fd, off, nextInst, corrupt>>
adaptVars == <<ax, aE, ay, az, aphase>>
regVars   == <<rseed, rscalers, rclasses, ri, reg, features, rphase>>
vars      == <<_predictor, mainVars, raceVars, adaptVars, regVars>>

---------------------------------------------------------------------------
(* Bounds of the model *)

MaxReq == 3
MaxB == 2
MaxD == 3
MaxE == 3
MaxSeed == 3
MaxScale == 1
NThreads == 2

(* Program constants *)

SanityMB == 1
MinDownloadMB == 50

REG_COLS == <<"acousticness", "danceability", "energy", "instrumentalness",
              "liveness", "loudness", "speechiness", "tempo", "valence",
              "duration_ms">>

CLS_COLS == <<"key", "mode", "time_signature">>

RegSet == {REG_COLS[i] : i \in 1..Len(REG_COLS)}
ClsSet == {CLS_COLS[i] : i \in 1..Len(CLS_COLS)}

---------------------------------------------------------------------------
(* The environment: what the process finds on disk and in os.environ *)

CkptFiles == {[exists |-> FALSE, size |-> 0],
              [exists |-> TRUE,  size |-> 1],
              [exists |-> TRUE,  size |-> 10],
              [exists |-> TRUE,  size |-> 300]}

Remotes == {"http_error", "drop", "1", "10", "300"}

RemoteSize(r) == CASE r = "1" -> 1 [] r = "10" -> 10 [] r = "300" -> 300 [] OTHER -> 0

Envs == [url     : BOOLEAN,
         remote  : Remotes,
         scalers : {"ok", "bad_json", "missing_key"},
         classmap: {"ok", "bad_json"},
         head    : {"ok", "no_trunk"}]

NoResp == [endpoint |-> "none", status |-> 0, detail |-> <<>>, keys |-> {},
           exc |-> "none", filename |-> "", content |-> "empty", suffix |-> ""]


---------------------------------------------------------------------------
(* model_loader.py: checkpoint bootstrap, Predictor, singleton accessor *)

\* ensure_checkpoint on the file ck at PANN_CKPT, with pt telling whether the
\* ".part" file exists: the exception raised ("none": the path was returned)
\* and the files afterwards.
ensure_checkpoint(ck, pt) ==
    IF ck.exists /\ ck.size > SanityMB
    THEN [raised |-> "none", ckpt |-> ck, part |-> pt, downloaded |-> FALSE]
    ELSE IF ~env.url
    THEN [raised |-> "RuntimeError: PANN checkpoint missing",
          ckpt |-> ck, part |-> pt, downloaded |-> FALSE]
    ELSE IF env.remote = "http_error"
    THEN [raised |-> "HTTPError", ckpt |-> ck, part |-> pt, downloaded |-> FALSE]
    ELSE IF env.remote = "drop"
    THEN [raised |-> "ConnectionError", ckpt |-> ck, part |-> TRUE,
          downloaded |-> FALSE]
    ELSE LET dl == [exists |-> TRUE, size |-> RemoteSize(env.remote)] IN
         IF dl.size < MinDownloadMB
         THEN [raised |-> "RuntimeError: Downloaded checkpoint looks too small",
               ckpt |-> dl, part |-> FALSE, downloaded |-> TRUE]
         ELSE [raised |-> "none", ckpt |-> dl, part |-> FALSE, downloaded |-> TRUE]

\* Faulty variant: the scalers file is not parsed in the constructor.
Predictor__init___lazy_scalers(ck, pt, pannsOk) ==
    LET ec == ensure_checkpoint(ck, pt)
        exc == IF ec.raised # "none" THEN ec.raised
               ELSE IF env.classmap = "bad_json" THEN "JSONDecodeError: class_maps"
               ELSE IF env.head = "no_trunk" THEN "RuntimeError: Bad head checkpoint"
               ELSE IF ~pannsOk THEN "Error: backbone"
               ELSE "none"
    IN  [raised |-> exc, ec |-> ec]

\* Predictor.__init__: pannsOk tells whether AudioTagging accepts the checkpoint
\* and the head's state_dict loads.
Predictor__init__(ck, pt, pannsOk) ==
    LET ec == ensure_checkpoint(ck, pt)
        exc == IF ec.raised # "none" THEN ec.raised
               ELSE IF env.scalers = "bad_json" THEN "JSONDecodeError: scalers"
               ELSE IF env.classmap = "bad_json" THEN "JSONDecodeError: class_maps"
               ELSE IF env.head = "no_trunk" THEN "RuntimeError: Bad head checkpoint"
               ELSE IF ~pannsOk THEN "Error: backbone"
               ELSE "none"
    IN  [raised |-> exc, ec |-> ec]

\* Faulty variant: the accessor constructs a Predictor on every call.
get_predictor_nocache(p, ck, pt, pannsOk, fresh) ==
    LET init == Predictor__init__(ck, pt, pannsOk) IN
    IF init.raised # "none"
    THEN [raised |-> init.raised, returned |-> 0, global |-> p,
          ran |-> TRUE, ec |-> init.ec]
    ELSE [raised |-> "none", returned |-> fresh, global |-> fresh,
          ran |-> TRUE, ec |-> init.ec]

\* get_predictor with the global holding p: the instance returned (0 when it
\* raised), the new value of the global, and what Predictor.__init__ did if run.
get_predictor(p, ck, pt, pannsOk, fresh) ==
    IF p = 0
    THEN LET init == Predictor__init__(ck, pt, pannsOk) IN
         IF init.raised # "none"
         THEN [raised |-> init.raised, returned |-> 0, global |-> p,
               ran |-> TRUE, ec |-> init.ec]
         ELSE [raised |-> "none", returned |-> fresh, global |-> fresh,
               ran |-> TRUE, ec |-> init.ec]
    ELSE [raised |-> "none", returned |-> p, global |-> p, ran |-> FALSE,
          ec |-> [raised |-> "none", ckpt |-> ck, part |-> pt,
                  downloaded |-> FALSE]]

\* Faulty variant: the result lacks its "meta" entry.
predict_from_bytes_nometa(content, suffix) ==
    IF content = "garbage"
    THEN [raised |-> "Error: decode", keys |-> {}, features |-> {}]
    ELSE IF env.scalers = "missing_key"
    THEN [raised |-> "KeyError", keys |-> {}, features |-> {}]
    ELSE [raised |-> "none", keys |-> {"features"},
          features |-> RegSet \cup ClsSet]

\* predict_from_bytes / _predict_from_path: the exception raised, or the keys
\* of the result and of its "features".
predict_from_bytes(content, suffix) ==
    IF content = "garbage"
    THEN [raised |-> "Error: decode", keys |-> {}, features |-> {}]
    ELSE IF env.scalers = "missing_key"
    THEN [raised |-> "KeyError", keys |-> {}, features |-> {}]
    ELSE [raised |-> "none", keys |-> {"features", "meta"},
          features |-> RegSet \cup ClsSet]

---------------------------------------------------------------------------
(* main.py: the HTTP handlers *)

Filenames == {"", "song.mp3", "CLIP.WAV", "notes.txt"}
Contents  == {"empty", "audio", "garbage"}

\* lines 59-64: the suffix handed to the decoder
pick_suffix(filename) ==
    CASE filename = "song.mp3" -> ".mp3"
      [] filename = "CLIP.WAV" -> ".wav"
      [] OTHER -> ".wav"

Reply(endpoint, status, detail, keys, exc, filename, content, suffix) ==
    [endpoint |-> endpoint, status |-> status, detail |-> detail, keys |-> keys,
     exc |-> exc, filename |-> filename, content |-> content, suffix |-> suffix]

Untouched ==
    UNCHANGED <<_predictor, env, ckpt, part, initRuns, built, getCalls,
                predictCalls, ensureCalls, ensureLast, rejected>>

root ==
    /\ served < MaxReq
    /\ resp' = Reply("/", 200, <<>>, {"ok", "service", "hint"}, "none", "", "empty", "")
    /\ served' = served + 1
    /\ Untouched
    /\ UNCHANGED <<raceVars, adaptVars, regVars>>

\* Faulty variant: the liveness probe loads the model.
healthz_loads ==
    /\ served < MaxReq
    /\ resp' = Reply("/healthz", 200, <<>>, {"status"}, "none", "", "empty", "")
    /\ served' = served + 1
    /\ _predictor' = IF _predictor = 0 THEN built + 1 ELSE _predictor
    /\ built' = IF _predictor = 0 THEN built + 1 ELSE built
    /\ initRuns' = IF _predictor = 0 THEN initRuns + 1 ELSE initRuns
    /\ getCalls' = getCalls + 1
    /\ UNCHANGED <<env, ckpt, part, predictCalls, ensureCalls, ensureLast, rejected>>
    /\ UNCHANGED <<raceVars, adaptVars, regVars>>

healthz ==
    /\ served < MaxReq
    /\ resp' = Reply("/healthz", 200, <<>>, {"status"}, "none", "", "empty", "")
    /\ served' = served + 1
    /\ Untouched
    /\ UNCHANGED <<raceVars, adaptVars, regVars>>

readyz ==
    /\ served < MaxReq
    /\ resp' = Reply("/readyz", 200, <<>>,
                     {"status", "python", "has_open_port", "env"}, "none", "",
                     "empty", "")
    /\ served' = served + 1
    /\ Untouched
    /\ UNCHANGED <<raceVars, adaptVars, regVars>>

\* The effect of get_predictor and predict_from_bytes on the process state.
Effects(gp) ==
    /\ _predictor' = gp.global
    /\ getCalls' = getCalls + 1
    /\ predictCalls' = IF gp.raised = "none" THEN predictCalls + 1
                       ELSE predictCalls
    /\ initRuns' = IF gp.ran THEN initRuns + 1 ELSE initRuns
    /\ built' = IF gp.ran /\ gp.raised = "none" THEN built + 1 ELSE built
    /\ ensureCalls' = IF gp.ran THEN ensureCalls + 1 ELSE ensureCalls
    /\ ensureLast' = IF gp.ran
                     THEN (IF gp.ec.raised = "none" THEN "returned"
                           ELSE gp.ec.raised)
                     ELSE ensureLast
    /\ ckpt' = gp.ec.ckpt
    /\ part' = gp.ec.part
    /\ rejected' = IF gp.ran /\ gp.ec.downloaded
                   THEN gp.ec.raised # "none"
                   ELSE rejected

\* Faulty variant: the handler drops the exception's message from the 500 detail.
infer_try_nomessage(filename, content, suffix, pannsOk) ==
    LET gp == get_predictor(_predictor, ckpt, part, pannsOk, built + 1)
        pr == IF gp.raised = "none" THEN predict_from_bytes(content, suffix)
              ELSE [raised |-> gp.raised, keys |-> {}, features |-> {}]
    IN  /\ resp' = IF pr.raised = "none"
                   THEN Reply("/infer", 200, <<>>, pr.keys, "none", filename,
                              content, suffix)
                   ELSE Reply("/infer", 500, <<"Inference failed">>,
                              {"detail"}, pr.raised, filename, content, suffix)
        /\ Effects(gp)

\* The try block of infer (lines 70-75) for a validated upload.
infer_try(filename, content, suffix, pannsOk) ==
    LET gp == get_predictor(_predictor, ckpt, part, pannsOk, built + 1)
        pr == IF gp.raised = "none" THEN predict_from_bytes(content, suffix)
              ELSE [raised |-> gp.raised, keys |-> {}, features |-> {}]
    IN  /\ resp' = IF pr.raised = "none"
                   THEN Reply("/infer", 200, <<>>, pr.keys, "none", filename,
                              content, suffix)
                   ELSE Reply("/infer", 500, <<"Inference failed: ", pr.raised>>,
                              {"detail"}, pr.raised, filename, content, suffix)
        /\ Effects(gp)

\* Faulty variant: the emptiness check comes after the model was obtained.
infer_checks_late ==
    /\ served < MaxReq
    /\ served' = served + 1
    /\ \E filename \in Filenames, content \in Contents, pannsOk \in BOOLEAN :
          IF filename = ""
          THEN /\ resp' = Reply("/infer", 400, <<"No file provided">>, {"detail"},
                                "none", filename, content, "")
               /\ Untouched
          ELSE IF content = "empty"
          THEN /\ resp' = Reply("/infer", 400, <<"Empty file">>, {"detail"},
                                "none", filename, content, pick_suffix(filename))
               /\ Effects(get_predictor(_predictor, ckpt, part, pannsOk, built + 1))
               /\ env' = env
          ELSE /\ infer_try(filename, content, pick_suffix(filename), pannsOk)
               /\ env' = env
    /\ UNCHANGED <<raceVars, adaptVars, regVars>>

infer ==
    /\ served < MaxReq
    /\ served' = served + 1
    /\ \E filename \in Filenames, content \in Contents, pannsOk \in BOOLEAN :
          IF filename = ""
          THEN /\ resp' = Reply("/infer", 400, <<"No file provided">>, {"detail"},
                                "none", filename, content, "")
               /\ Untouched
          ELSE IF content = "empty"
          THEN /\ resp' = Reply("/infer", 400, <<"Empty file">>, {"detail"},
                                "none", filename, content, pick_suffix(filename))
               /\ Untouched
          ELSE /\ infer_try(filename, content, pick_suffix(filename), pannsOk)
               /\ env' = env
    /\ UNCHANGED <<raceVars, adaptVars, regVars>>

---------------------------------------------------------------------------
(* Idle values of the variables a specification does not use *)

IdleRace ==
    /\ pc = <<>> /\ result = <<>> /\ inodes = <<>> /\ tmpPath = 0 /\ dstPath = 0
    /\ fd = <<>> /\ off = <<>> /\ nextInst = 0 /\ corrupt = {}

IdleAdapt ==
    /\ ax = <<>> /\ aE = 0 /\ ay = <<>> /\ az = <<>> /\ aphase = "idle"

IdleReg ==
    /\ rseed = 0 /\ rscalers = <<>> /\ rclasses = {} /\ ri = 0 /\ reg = <<>>
    /\ features = <<>> /\ rphase = "idle"

IdleMain ==
    /\ env = [url |-> FALSE, remote |-> "http_error", scalers |-> "ok",
              classmap |-> "ok", head |-> "ok"]
    /\ ckpt = [exists |-> FALSE, size |-> 0]
    /\ part = FALSE
    /\ resp = NoResp
    /\ served = 0 /\ initRuns = 0 /\ built = 0 /\ getCalls = 0 /\ predictCalls = 0
    /\ ensureCalls = 0 /\ ensureLast = "none" /\ rejected = FALSE

---------------------------------------------------------------------------
(* Spec: the service handling requests one at a time *)

Init ==
    /\ _predictor = 0
    /\ env \in Envs
    /\ ckpt \in CkptFiles
    /\ part = FALSE
    /\ resp = NoResp
    /\ served = 0 /\ initRuns = 0 /\ built = 0 /\ getCalls = 0 /\ predictCalls = 0
    /\ ensureCalls = 0 /\ ensureLast = "none" /\ rejected = FALSE
    /\ IdleRace /\ IdleAdapt /\ IdleReg

Next == root \/ healthz \/ readyz \/ infer

Spec == Init /\ [][Next]_vars

---------------------------------------------------------------------------
(* SpecAdapt: the embedding adapter of Predictor.__init__ *)

EmbVals == {0, 1}

\* A batch of shape (B, D): B rows of D values.
Batches == UNION {[1..b -> [1..d -> EmbVals]] : b \in 1..MaxB, d \in 1..MaxD}

Rows(x) == Len(x)
Width(x) == Len(x[1])

\* Faulty variant: a narrower batch is padded in front.
_adapt_padfront(x_np, expected_d_in) ==
    LET B == Rows(x_np)
        D == Width(x_np)
    IN  IF D = expected_d_in THEN x_np
        ELSE IF D > expected_d_in
        THEN [i \in 1..B |-> SubSeq(x_np[i], 1, expected_d_in)]
        ELSE LET pad == expected_d_in - D IN
             [i \in 1..B |-> [j \in 1..pad |-> 0] \o x_np[i]]

\* _adapt, with self.expected_d_in as a parameter
_adapt(x_np, expected_d_in) ==
    LET B == Rows(x_np)
        D == Width(x_np)
    IN  IF D = expected_d_in THEN x_np
        ELSE IF D > expected_d_in
        THEN [i \in 1..B |-> SubSeq(x_np[i], 1, expected_d_in)]
        ELSE LET pad == expected_d_in - D IN
             [i \in 1..B |-> x_np[i] \o [j \in 1..pad |-> 0]]

InitAdapt ==
    /\ _predictor = 0
    /\ IdleMain /\ IdleRace /\ IdleReg
    /\ ax \in Batches
    /\ aE \in 1..MaxE
    /\ ay = <<>> /\ az = <<>>
    /\ aphase = "input"

\* x_np = self._adapt(x_np), line 159
AdaptCall ==
    /\ aphase = "input"
    /\ ay' = _adapt(ax, aE)
    /\ aphase' = "adapted"
    /\ UNCHANGED <<ax, aE, az, _predictor, mainVars, raceVars, regVars>>

\* the adapter applied to its own output
AdaptAgain ==
    /\ aphase = "adapted"
    /\ az' = _adapt(ay, aE)
    /\ aphase' = "again"
    /\ UNCHANGED <<ax, aE, ay, _predictor, mainVars, raceVars, regVars>>

NextAdapt == AdaptCall \/ AdaptAgain

SpecAdapt == InitAdapt /\ [][NextAdapt]_vars

---------------------------------------------------------------------------
(* SpecReg: the regression loop of _predict_from_path *)

Index(c) == CHOOSE i \in 1..Len(REG_COLS) : REG_COLS[i] = c

\* The head's standardized outputs out["reg_<c>"][0], one per column.
HeadOut(seed) == [c \in RegSet |-> ((seed + 3 * Index(c)) % 5) - 2]

\* A parsed regression_scalers.json: {"mean": {...}, "std": {...}}, possibly
\* lacking some columns.
Scalers(k, missing) ==
    [mean |-> [c \in RegSet \ missing |-> k + Index(c)],
     std  |-> [c \in RegSet \ missing |-> 1 + ((k + Index(c)) % 3)]]

ScalerFiles == {Scalers(k, m) : k \in 0..MaxScale, m \in {{}, {"tempo"}, {"valence"}}}

ClassMapKeys == {ClsSet, {"key", "mode"}}

\* Faulty variant: the inverse log1p is applied to loudness as well.
_invert_regression_loudness(scalers, name, p_std) ==
    LET m == scalers.mean[name]
        s == scalers.std[name]
        val == p_std * s + m
    IN  IF name \in {"tempo", "duration_ms", "loudness"}
        THEN [fn |-> "expm1", arg |-> val]
        ELSE [fn |-> "float", arg |-> val]

\* _invert_regression: float(v) and float(np.expm1(v)) are kept symbolic
_invert_regression(scalers, name, p_std) ==
    LET m == scalers.mean[name]
        s == scalers.std[name]
        val == p_std * s + m
    IN  IF name \in {"tempo", "duration_ms"}
        THEN [fn |-> "expm1", arg |-> val]
        ELSE [fn |-> "float", arg |-> val]

\* {**reg, **cls}
Merge(r, c) == [k \in DOMAIN r \cup DOMAIN c |-> IF k \in DOMAIN c THEN c[k] ELSE r[k]]

InitReg ==
    /\ _predictor = 0
    /\ IdleMain /\ IdleRace /\ IdleAdapt
    /\ rseed \in 0..MaxSeed
    /\ rscalers \in ScalerFiles
    /\ rclasses \in ClassMapKeys
    /\ ri = 0
    /\ reg = <<>>
    /\ features = <<>>
    /\ rphase = "loop"

\* lines 167-169: one iteration of "for c in REG_COLS"
RegStep ==
    /\ rphase = "loop"
    /\ ri < Len(REG_COLS)
    /\ LET c == REG_COLS[ri + 1]
           p_std == HeadOut(rseed)[c]
       IN  IF c \in DOMAIN rscalers.mean /\ c \in DOMAIN rscalers.std
           THEN /\ reg' = [k \in DOMAIN reg \cup {c} |->
                             IF k = c THEN _invert_regression(rscalers, c, p_std)
                             ELSE reg[k]]
                /\ ri' = ri + 1
                /\ rphase' = rphase
           ELSE /\ rphase' = "raised"
                /\ UNCHANGED <<reg, ri>>
    /\ UNCHANGED <<rseed, rscalers, rclasses, features>>
    /\ UNCHANGED <<_predictor, mainVars, raceVars, adaptVars>>

\* lines 172-187: the classifications and the returned dict
RegReturn ==
    /\ rphase = "loop"
    /\ ri = Len(REG_COLS)
    /\ LET cls == [c \in rclasses |-> [fn |-> "int", arg |-> 0]]
       IN  features' = Merge(reg, cls)
    /\ rphase' = "done"
    /\ UNCHANGED <<rseed, rscalers, rclasses, ri, reg>>
    /\ UNCHANGED <<_predictor, mainVars, raceVars, adaptVars>>

NextReg == RegStep \/ RegReturn

SpecReg == InitReg /\ [][NextReg]_vars

---------------------------------------------------------------------------
(* SpecRace: get_predictor called by several threads.  Each thread runs    *)
(* lines 209-213, Predictor.__init__ and ensure_checkpoint one statement   *)
(* at a time.  A file is an inode holding the set of segments of the       *)
(* download written to it; PANN_CKPT and its ".part" sibling are paths     *)
(* that name an inode (0: no such file).  The segments end at the sizes    *)
(* where the checks of lines 44 and 67 change, so one step of the loop of  *)
(* lines 60-62 stands for the 1 MiB chunks up to the next such size.  The  *)
(* 300 MiB download is the genuine checkpoint.                             *)

Threads == 1..NThreads

Marks(r) ==
    LET n == RemoteSize(r) IN
    IF n >= MinDownloadMB THEN <<SanityMB, SanityMB + 1, MinDownloadMB, n>>
    ELSE <<SanityMB, SanityMB + 1, n>>

Max(S) == CHOOSE m \in S : \A k \in S : k <= m

\* st_size
FileSize(ino) == IF ino.segs = {} THEN 0 ELSE Marks(ino.src)[Max(ino.segs)]

Complete(ino) == ino.segs = 1..Len(Marks(ino.src))

Genuine(ino) == Complete(ino) /\ ino.src = "300"

RaceEnvs == {e \in Envs : /\ e.remote \in {"http_error", "10", "300"}
                          /\ e.classmap = "ok" /\ e.head = "ok"
                          /\ e.scalers \in {"ok", "bad_json"}}

NoResult == [inst |-> 0, ret |-> 0, exc |-> "none"]

InitRace ==
    /\ _predictor = 0
    /\ IdleAdapt /\ IdleReg
    /\ env \in RaceEnvs
    /\ ckpt = [exists |-> FALSE, size |-> 0]
    /\ part = FALSE
    /\ resp = NoResp
    /\ served = 0 /\ initRuns = 0 /\ built = 0 /\ getCalls = 0 /\ predictCalls = 0
    /\ ensureCalls = 0 /\ ensureLast = "none" /\ rejected = FALSE
    /\ pc = [t \in Threads |-> "idle"]
    /\ result = [t \in Threads |-> NoResult]
    /\ \/ inodes = <<>> /\ dstPath = 0
       \/ inodes = <<[segs |-> 1..Len(Marks("300")), src |-> "300"]>> /\ dstPath = 1
    /\ tmpPath = 0
    /\ fd = [t \in Threads |-> 0]
    /\ off = [t \in Threads |-> 0]
    /\ nextInst = 0
    /\ corrupt = {}

RaceFrame == UNCHANGED <<mainVars, adaptVars, regVars>>

Goto(t, l) == pc' = [pc EXCEPT ![t] = l]

Raise(t, e) ==
    /\ pc' = [pc EXCEPT ![t] = "raised"]
    /\ result' = [result EXCEPT ![t].exc = e]

\* a caller enters get_predictor
g_call(t) ==
    /\ pc[t] = "idle"
    /\ Goto(t, "check")
    /\ UNCHANGED <<_predictor, result, inodes, tmpPath, dstPath, fd, off,
                   nextInst, corrupt>>
    /\ RaceFrame

\* line 211: if _predictor is None
g_check(t) ==
    /\ pc[t] = "check"
    /\ Goto(t, IF _predictor = 0 THEN "ec_exists" ELSE "ret")
    /\ UNCHANGED <<_predictor, result, inodes, tmpPath, dstPath, fd, off,
                   nextInst, corrupt>>
    /\ RaceFrame

\* lines 44-52: the early return, or the missing URL
ec_exists(t) ==
    /\ pc[t] = "ec_exists"
    /\ IF dstPath # 0 /\ FileSize(inodes[dstPath]) > SanityMB
       THEN Goto(t, "load") /\ result' = result
       ELSE IF ~env.url
       THEN Raise(t, "RuntimeError: PANN checkpoint missing")
       ELSE Goto(t, "ec_get") /\ result' = result
    /\ UNCHANGED <<_predictor, inodes, tmpPath, dstPath, fd, off, nextInst, corrupt>>
    /\ RaceFrame

\* lines 56-57: requests.get and raise_for_status
ec_get(t) ==
    /\ pc[t] = "ec_get"
    /\ IF env.remote = "http_error"
       THEN Raise(t, "HTTPError")
       ELSE Goto(t, "ec_open") /\ result' = result
    /\ UNCHANGED <<_predictor, inodes, tmpPath, dstPath, fd, off, nextInst, corrupt>>
    /\ RaceFrame

\* line 59: open(tmp, "wb") creates the file or truncates the one there
ec_open(t) ==
    /\ pc[t] = "ec_open"
    /\ IF tmpPath = 0
       THEN /\ inodes' = Append(inodes, [segs |-> {}, src |-> env.remote])
            /\ tmpPath' = Len(inodes) + 1
       ELSE /\ inodes' = [inodes EXCEPT ![tmpPath].segs = {}]
            /\ tmpPath' = tmpPath
    /\ fd' = [fd EXCEPT ![t] = tmpPath']
    /\ off' = [off EXCEPT ![t] = 0]
    /\ Goto(t, "ec_write")
    /\ UNCHANGED <<_predictor, result, dstPath, nextInst, corrupt>>
    /\ RaceFrame

\* lines 60-62: f.write(chunk) at the handle's own offset
ec_write(t) ==
    /\ pc[t] = "ec_write"
    /\ off[t] < Len(Marks(env.remote))
    /\ inodes' = [inodes EXCEPT ![fd[t]].segs = @ \cup {off[t] + 1}]
    /\ off' = [off EXCEPT ![t] = @ + 1]
    /\ UNCHANGED <<_predictor, pc, result, tmpPath, dstPath, fd, nextInst, corrupt>>
    /\ RaceFrame

\* line 63: the file is closed and tmp.replace(dst) renames whatever is at tmp
ec_replace(t) ==
    /\ pc[t] = "ec_write"
    /\ off[t] = Len(Marks(env.remote))
    /\ IF tmpPath = 0
       THEN /\ Raise(t, "FileNotFoundError")
            /\ UNCHANGED <<tmpPath, dstPath>>
       ELSE /\ dstPath' = tmpPath
            /\ tmpPath' = 0
            /\ Goto(t, "ec_size") /\ result' = result
    /\ UNCHANGED <<_predictor, inodes, fd, off, nextInst, corrupt>>
    /\ RaceFrame

\* lines 66-71: the size check of the file now at dst
ec_size(t) ==
    /\ pc[t] = "ec_size"
    /\ IF FileSize(inodes[dstPath]) < MinDownloadMB
       THEN Raise(t, "RuntimeError: Downloaded checkpoint looks too small")
       ELSE Goto(t, "load") /\ result' = result
    /\ UNCHANGED <<_predictor, inodes, tmpPath, dstPath, fd, off, nextInst, corrupt>>
    /\ RaceFrame

\* lines 90-140: the artifacts are parsed and AudioTagging reads the file at
\* dst; a file that is not the whole checkpoint makes it raise, or load
\* whatever bytes are there
p_load(t) ==
    /\ pc[t] = "load"
    /\ IF env.scalers = "bad_json"
       THEN /\ Raise(t, "JSONDecodeError: scalers")
            /\ UNCHANGED <<nextInst, corrupt>>
       ELSE \E outcome \in {"raise", "loaded"} :
              /\ outcome = "raise" => ~Genuine(inodes[dstPath])
              /\ IF outcome = "raise"
                 THEN /\ Raise(t, "Error: backbone")
                      /\ UNCHANGED <<nextInst, corrupt>>
                 ELSE /\ nextInst' = nextInst + 1
                      /\ corrupt' = IF Genuine(inodes[dstPath]) THEN corrupt
                                    ELSE corrupt \cup {nextInst + 1}
                      /\ result' = [result EXCEPT ![t].inst = nextInst + 1]
                      /\ Goto(t, "assign")
    /\ UNCHANGED <<_predictor, inodes, tmpPath, dstPath, fd, off>>
    /\ RaceFrame

\* line 212: _predictor = <the instance just built>
g_assign(t) ==
    /\ pc[t] = "assign"
    /\ _predictor' = result[t].inst
    /\ Goto(t, "ret")
    /\ UNCHANGED <<result, inodes, tmpPath, dstPath, fd, off, nextInst, corrupt>>
    /\ RaceFrame

\* line 213: return _predictor
g_return(t) ==
    /\ pc[t] = "ret"
    /\ result' = [result EXCEPT ![t].ret = _predictor]
    /\ Goto(t, "done")
    /\ UNCHANGED <<_predictor, inodes, tmpPath, dstPath, fd, off, nextInst, corrupt>>
    /\ RaceFrame

NextRace ==
    \E t \in Threads :
        \/ g_call(t) \/ g_check(t) \/ ec_exists(t) \/ ec_get(t) \/ ec_open(t)
        \/ ec_write(t) \/ ec_replace(t) \/ ec_size(t) \/ p_load(t)
        \/ g_assign(t) \/ g_return(t)

SpecRace == InitRace /\ [][NextRace]_vars

---------------------------------------------------------------------------
(* Properties of Spec *)

\* A step that handles one request.
Handles == served' = served + 1

Validated(r) == r.endpoint = "/infer" /\ r.filename # "" /\ r.content # "empty"

ScalerErrors == {"JSONDecodeError: scalers", "KeyError"}

\* C1: an /infer upload with a filename and zero bytes gets 400 "Empty file",
\* whether or not the predictor is loaded, and neither get_predictor nor
\* predict_from_bytes is called for it.
C1_EmptyFileRejected ==
    [][ (Handles /\ resp'.endpoint = "/infer" /\ resp'.filename # ""
                 /\ resp'.content = "empty")
        => /\ resp'.status = 400
           /\ resp'.detail = <<"Empty file">>
           /\ getCalls' = getCalls
           /\ predictCalls' = predictCalls
           /\ initRuns' = initRuns
           /\ _predictor' = _predictor ]_vars

\* C1 witness: an empty upload was rejected while the predictor was loaded.
C1_Witness ==
    /\ resp.endpoint = "/infer" /\ resp.filename # "" /\ resp.content = "empty"
    /\ resp.status = 400
    /\ _predictor # 0

\* C2 as stated: every /infer upload with non-empty content gets 200 with both
\* the "features" and the "meta" key.
C2_NonEmptyAlways200 ==
    (resp.endpoint = "/infer" /\ resp.content # "empty")
        => (resp.status = 200 /\ {"features", "meta"} \subseteq resp.keys)

\* C2 amended: a non-empty upload with a filename gets 200 with both keys when
\* obtaining the predictor and predicting raise nothing, and 500 otherwise; a
\* 200 needs decodable audio, well-formed artifacts and a checkpoint on disk.
C2_NonEmpty200UnlessRaised ==
    Validated(resp)
        => /\ resp.exc = "none"
                => (resp.status = 200 /\ {"features", "meta"} \subseteq resp.keys)
           /\ resp.exc # "none" => resp.status = 500
           /\ resp.status = 200
                => /\ resp.content = "audio"
                   /\ env.scalers = "ok" /\ env.classmap = "ok" /\ env.head = "ok"
                   /\ ckpt.exists /\ ckpt.size > SanityMB
                   /\ _predictor # 0

\* C2 witness: a non-empty upload answered 200 with both keys.
C2_Witness ==
    /\ Validated(resp) /\ resp.status = 200
    /\ {"features", "meta"} \subseteq resp.keys

\* C3: for a validated /infer request every exception raised while obtaining
\* the predictor or predicting becomes 500 "Inference failed: <message>"; the
\* only other error status of /infer is 400, given exactly for the two
\* validation failures.
C3_ExceptionsBecome500 ==
    resp.endpoint = "/infer"
        => /\ resp.status \in {200, 400, 500}
           /\ resp.status = 400 <=> (resp.filename = "" \/ resp.content = "empty")
           /\ resp.status = 400
                => resp.detail \in {<<"No file provided">>, <<"Empty file">>}
           /\ Validated(resp)
                => /\ resp.status = 500 <=> resp.exc # "none"
                   /\ resp.status = 500
                        => resp.detail = <<"Inference failed: ", resp.exc>>

\* C3 witness: a failure of the predictor's construction and a failure of the
\* prediction are both reachable as 500; here one raised while predicting.
C3_Witness ==
    /\ Validated(resp) /\ resp.status = 500
    /\ resp.exc = "KeyError"
    /\ _predictor # 0

\* C4: the Predictor is constructed successfully at most once; once the global
\* is set every later call returns it without running __init__; when __init__
\* raises the global stays None and the next call constructs again.
C4_SingleInstance ==
    [][ /\ built' <= 1
        /\ _predictor # 0
             => (_predictor' = _predictor /\ initRuns' = initRuns /\ built' = built)
        /\ (getCalls' = getCalls + 1 /\ _predictor = 0) => initRuns' = initRuns + 1
        /\ (initRuns' = initRuns + 1 /\ built' = built) => _predictor' = 0
        /\ built' = built + 1 => (_predictor = 0 /\ _predictor' # 0) ]_vars

\* C4 witness: a construction failed, the next call constructed the instance,
\* and a later call was served from it.
C4_Witness ==
    /\ initRuns = 2 /\ built = 1 /\ getCalls = 3 /\ _predictor # 0

\* C6: GET /, /healthz, /readyz and /infer requests answered 400 leave the
\* global and the checkpoint alone and call neither get_predictor nor
\* ensure_checkpoint; the global changes only in a validated /infer request.
C6_OnlyValidatedInferLoads ==
    [][ /\ (Handles /\ (resp'.endpoint # "/infer" \/ resp'.status = 400))
             => /\ _predictor' = _predictor
                /\ getCalls' = getCalls
                /\ ensureCalls' = ensureCalls
                /\ initRuns' = initRuns
                /\ ckpt' = ckpt /\ part' = part
        /\ (_predictor' # _predictor \/ getCalls' # getCalls
                \/ ensureCalls' # ensureCalls)
             => Validated(resp') ]_vars

\* C6 witness: requests of the other kinds were handled, in some order, with
\* nothing loaded.
C6_Witness ==
    /\ served = MaxReq /\ getCalls = 0 /\ _predictor = 0
    /\ resp.endpoint = "/infer" /\ resp.status = 400

\* C9 as stated: a malformed scaler file makes the service fail at startup, so
\* it never shows as the failure of an /infer request.
C9_FailsAtStartup ==
    ~(env.scalers # "ok" /\ resp.endpoint = "/infer" /\ resp.exc \in ScalerErrors)

\* C9 amended: with a malformed scaler file the service starts and answers its
\* GET endpoints with 200; the file is read only when a validated /infer
\* request constructs the Predictor, and every validated /infer request then
\* gets 500, never 200.
C9_FailsOnInfer ==
    env.scalers # "ok"
        => /\ resp.endpoint \in {"/", "/healthz", "/readyz"} => resp.status = 200
           /\ Validated(resp) => resp.status = 500
           /\ resp.exc \in ScalerErrors => Validated(resp)
           /\ env.scalers = "bad_json" => _predictor = 0

\* C9 witness: an unparsable scaler file surfaced as the 500 of an /infer
\* request after a GET request had been served.
C9_Witness ==
    /\ env.scalers = "bad_json" /\ served >= 2
    /\ resp.endpoint = "/infer" /\ resp.exc = "JSONDecodeError: scalers"

\* C10: ensure_checkpoint never returns the path of a file that an earlier
\* call downloaded and rejected as too small.
C10_NeverReturnsRejected ==
    ~(ensureLast = "returned" /\ rejected)

---------------------------------------------------------------------------
(* Properties of SpecAdapt *)

\* C7: _adapt turns a (B, D) batch into a (B, E) batch: unchanged when D = E,
\* the first E columns when D > E, each row followed by E - D zeros when D < E;
\* rows and retained values are kept, and adapting twice is adapting once.
C7_AdaptShape ==
    /\ aphase \in {"adapted", "again"}
         => /\ Rows(ay) = Rows(ax)
            /\ \A i \in 1..Rows(ay) :
                 /\ Len(ay[i]) = aE
                 /\ \A j \in 1..aE :
                      ay[i][j] = IF j <= Width(ax) THEN ax[i][j] ELSE 0
            /\ Width(ax) = aE => ay = ax
    /\ aphase = "again" => az = ay

\* C7 witness: a narrower batch was padded and adapted again.
C7_Witness ==
    /\ aphase = "again" /\ Width(ax) < aE /\ Rows(ax) = 2
    /\ \E i \in 1..Rows(ax) : ax[i][Width(ax)] = 1

---------------------------------------------------------------------------
(* Properties of SpecReg *)

Expected(c) ==
    [fn  |-> IF c \in {"tempo", "duration_ms"} THEN "expm1" ELSE "float",
     arg |-> HeadOut(rseed)[c] * rscalers.std[c] + rscalers.mean[c]]

\* C8: every regression column's reported value is p * std + mean, with the
\* inverse log1p applied exactly for tempo and duration_ms, and all ten
\* columns are in "features".
C8_InverseScaling ==
    /\ \A c \in DOMAIN reg : reg[c] = Expected(c)
    /\ DOMAIN reg = {REG_COLS[i] : i \in 1..ri}
    /\ rphase = "done"
         => /\ RegSet \subseteq DOMAIN features
            /\ \A c \in RegSet : features[c] = Expected(c)

\* C8 witness: a prediction returned its features.
C8_Witness ==
    /\ rphase = "done"
    /\ features["tempo"].fn = "expm1" /\ features["loudness"].fn = "float"
    /\ features["loudness"].arg # rscalers.mean["loudness"]
    /\ "time_signature" \in DOMAIN features

---------------------------------------------------------------------------
(* Properties of SpecRace *)

\* Every get_predictor call made one after the other succeeds here: the
\* artifacts parse and the URL serves the genuine checkpoint.
SequentiallyFine == env.scalers = "ok" /\ env.url /\ env.remote = "300"

\* C5: interleaved get_predictor calls race benignly: every caller that returns
\* holds a constructed Predictor, the global is set once any caller returned,
\* and nothing differs from the sequential behaviour except that __init__ may
\* run several times; so where sequential calls all succeed, no caller fails.
C5_BenignRace ==
    /\ \A t \in Threads : pc[t] = "done" => result[t].ret \in 1..nextInst
    /\ (\E t \in Threads : pc[t] = "done") => _predictor # 0
    /\ SequentiallyFine => \A t \in Threads : pc[t] # "raised"

\* The part of C5 that the accessor alone decides.
RaceReturnsInstance ==
    /\ \A t \in Threads : pc[t] = "done" => result[t].ret \in 1..nextInst
    /\ (\E t \in Threads : pc[t] = "done") => _predictor # 0

\* Two callers hold different instances after __init__ ran twice.
RaceRedundantLoad ==
    /\ \A t \in Threads : pc[t] = "done"
    /\ \E t, u \in Threads : result[t].ret # result[u].ret

==========================================================================
